---- MODULE Spec2Model ----
(***************************************************************************)
(* OrcaStream (src/src/openrct2/core/OrcaStream.hpp): the chunked          *)
(* container envelope, its ChunkStream primitives and the array framing    *)
(* protocol.  A user codec is a type descriptor interpreted by Codec; one  *)
(* action is one call of a public operation, the codec it runs included.   *)
(***************************************************************************)
EXTENDS Integers, Sequences, FiniteSets, TLC

READING == "READING"
WRITING == "WRITING"

COMPRESSION_NONE == 0
COMPRESSION_GZIP == 1

\* sizeof(Header), sizeof(ChunkEntry) under #pragma pack(1), sizeof(temp)
HeaderSize == 64
ChunkEntrySize == 20
BlockSize == 2048

\* Bounds of the model
MaxChunks == 2
MaxLen == 3
MaxHeaderEdits == 2

NoError == "none"

Max(a, b) == IF a > b THEN a ELSE b
Min(a, b) == IF a < b THEN a ELSE b

(***************************************************************************)
(* Raw byte images.  A scalar of w bytes is stored little-endian; taking   *)
(* the w low bytes is also what static_cast<uintN_t> does.                 *)
(***************************************************************************)
RECURSIVE LE(_, _)
LE(n, w) == IF w = 0 THEN <<>> ELSE <<n % 256>> \o LE(n \div 256, w - 1)

RECURSIVE FromLE(_)
FromLE(b) == IF b = <<>> THEN 0 ELSE b[1] + 256 * FromLE(Tail(b))

Zeros(n) == [i \in 1..n |-> 0]

(***************************************************************************)
(* MemoryStream: a growable byte buffer with a cursor (data, pos).  The    *)
(* chunk stream state cs carries these two fields, the array stack, the    *)
(* pending exception (err) and the record of framing calls (log).  The     *)
(* codec is a callable that may capture the container, so cs also carries  *)
(* the members a call made from inside it works on: _chunks (chunks) and   *)
(* _currentChunk (cur).                                                    *)
(***************************************************************************)
MemoryStream_Write(ms, bytes) ==
    LET n == Len(bytes)
        p == ms.pos
        newLen == Max(Len(ms.data), p + n)
    IN  [ms EXCEPT !.data = [i \in 1..newLen |->
                                IF i > p /\ i <= p + n THEN bytes[i - p] ELSE ms.data[i]],
                   !.pos = p + n]

\* Read(dst, n): throws when fewer than n bytes remain
MemoryStream_CanRead(ms, n) == ms.pos + n <= Len(ms.data)

MemoryStream_Peek(ms, n) == SubSeq(ms.data, ms.pos + 1, ms.pos + n)

\* SetPosition(p): seek within [0, length], throws outside
MemoryStream_CanSeek(ms, p) == p >= 0 /\ p <= Len(ms.data)

MemoryStream_Clear(ms) == [ms EXCEPT !.data = <<>>, !.pos = 0]

\* std::stack<ArrayState>: the top is the last element
DefaultArrayState == [StartPos |-> 0, LastPos |-> 0, Count |-> 0, ElementSize |-> 0]

Top(stack) == IF stack = <<>> THEN DefaultArrayState ELSE stack[Len(stack)]

Pop(stack) == SubSeq(stack, 1, Len(stack) - 1)

SetTop(stack, st) == [stack EXCEPT ![Len(stack)] = st]

NewChunkStream(buffer, chunks, cur) ==
    [data |-> buffer.data, pos |-> buffer.pos, stack |-> <<>>, err |-> NoError, log |-> <<>>,
     chunks |-> chunks, cur |-> cur]

Throw(cs, e) == [cs EXCEPT !.err = e]

\* One record per framing call or element codec call: the stream before and after
Logged(fn, mode, cs0, cs1) ==
    [cs1 EXCEPT !.log = Append(@, [fn |-> fn, mode |-> mode,
                                   depth0 |-> Len(cs0.stack), depth1 |-> Len(cs1.stack),
                                   pos0 |-> cs0.pos, pos1 |-> cs1.pos,
                                   top0 |-> Top(cs0.stack), top1 |-> Top(cs1.stack),
                                   data0 |-> cs0.data, data1 |-> cs1.data,
                                   err |-> cs1.err])]

(***************************************************************************)
(* ChunkStream primitives.  An operation called while an exception is      *)
(* pending does nothing: the exception is unwinding through it.            *)
(***************************************************************************)
ReadBuffer(cs, len) ==
    IF cs.err # NoError THEN [cs |-> cs, ret |-> <<>>]
    ELSE IF ~MemoryStream_CanRead(cs, len)
         THEN [cs |-> Throw(cs, "UnexpectedEndOfStream"), ret |-> <<>>]
         ELSE [cs |-> [cs EXCEPT !.pos = @ + len], ret |-> MemoryStream_Peek(cs, len)]

WriteBuffer(cs, bytes) ==
    IF cs.err # NoError THEN cs ELSE MemoryStream_Write(cs, bytes)

SetPosition(cs, p) ==
    IF cs.err # NoError THEN cs
    ELSE IF ~MemoryStream_CanSeek(cs, p) THEN Throw(cs, "SeekOutOfBounds")
         ELSE [cs EXCEPT !.pos = p]

\* MemoryStream& GetStream(): the codec works on _buffer itself, whatever the mode
GetStream_SetPosition(cs, p) == SetPosition(cs, p)

GetStream_Write(cs, bytes) ==
    IF cs.err # NoError THEN cs ELSE MemoryStream_Write(cs, bytes)

\* ReadWrite(T& v) over ReadWrite(void* addr, size_t len): v is a scalar of w bytes;
\* r is what ReadBuffer returned
ScalarFromBuffer(r, v) ==
    [cs |-> r.cs, ret |-> IF r.cs.err = NoError THEN FromLE(r.ret) ELSE v]

ReadWrite(cs, mode, v, w) ==
    IF mode = READING
    THEN ScalarFromBuffer(ReadBuffer(cs, w), v)
    ELSE [cs |-> WriteBuffer(cs, LE(v, w)), ret |-> v]

\* template<typename T> T Read(): T v{}; ReadWrite(v); return v
Read(cs, mode, w) == ReadWrite(cs, mode, 0, w)

\* variant: Write(v) stores v in either mode
Write_Stores(cs, mode, v, w) == ReadWrite(cs, WRITING, v, w).cs

\* template<typename T> void Write(const T& v)
Write(cs, mode, v, w) ==
    IF mode = READING
    THEN ReadWrite(cs, mode, 0, w).cs
    ELSE ReadWrite(cs, mode, v, w).cs

\* while (true) { ReadBuffer(&c, 1); if (c == 0) break; buffer.push_back(c); }
RECURSIVE ReadStringLoop(_, _)
RECURSIVE ReadStringChar(_, _)
ReadStringLoop(cs, buffer) == ReadStringChar(ReadBuffer(cs, 1), buffer)

ReadStringChar(r, buffer) ==
    IF r.cs.err # NoError THEN [cs |-> r.cs, ret |-> buffer]
    ELSE IF r.ret[1] = 0 THEN [cs |-> r.cs, ret |-> buffer]
    ELSE ReadStringLoop(r.cs, Append(buffer, r.ret[1]))

ReadString(cs) == ReadStringLoop(cs, <<>>)

\* variant: no NUL is looked for
FindNul_None(s) == Len(s)

\* s.find('\0'), npos replaced by s.size()
FindNul(s) ==
    IF \E i \in 1..Len(s) : s[i] = 0
    THEN (CHOOSE i \in 1..Len(s) : s[i] = 0 /\ \A j \in 1..(i - 1) : s[j] # 0) - 1
    ELSE Len(s)

\* variant: the terminating NUL is not written
WriteString_NoTerminator(cs, s) ==
    WriteBuffer(cs, SubSeq(s, 1, FindNul(s)))

WriteString(cs, s) ==
    WriteBuffer(WriteBuffer(cs, SubSeq(s, 1, FindNul(s))), <<0>>)

\* v = ReadString(): v keeps its value when ReadString throws
AssignString(r, v) ==
    [cs |-> r.cs, ret |-> IF r.cs.err = NoError THEN r.ret ELSE v]

\* void ReadWrite(std::string& v)
ReadWriteString(cs, mode, v) ==
    IF mode = READING
    THEN AssignString(ReadString(cs), v)
    ELSE [cs |-> WriteString(cs, v), ret |-> v]

\* void Write(const std::string_view& v): READING reads a string into a temporary
WriteStringView(cs, mode, v) ==
    IF mode = READING
    THEN ReadWriteString(cs, mode, <<>>).cs
    ELSE WriteString(cs, v)

\* static_cast between unsigned integers: the value modulo 2^(8 * w)
CastTo(v, w) == FromLE(LE(v, w))

\* v = static_cast<TMem>(sv): v keeps its value when the read throws
AssignAs(r, v, mem) ==
    [cs |-> r.cs, ret |-> IF r.cs.err = NoError THEN CastTo(r.ret, mem) ELSE v]

\* template<typename TMem, typename TSave> void ReadWriteAs(TMem& v)
ReadWriteAs(cs, mode, v, mem, save) ==
    IF mode = READING
    THEN AssignAs(ReadWrite(cs, mode, 0, save), v, mem)
    ELSE [cs |-> ReadWrite(cs, mode, CastTo(v, save), save).cs, ret |-> v]

(***************************************************************************)
(* Array framing: BeginArray / NextArrayElement / EndArray                 *)
(***************************************************************************)
\* arrayState.Count = Read<uint32_t>(): not assigned when the read threw
SetCount(r) ==
    IF r.cs.err # NoError THEN r.cs
    ELSE [r.cs EXCEPT !.stack = SetTop(@, [Top(@) EXCEPT !.Count = r.ret])]

\* arrayState.ElementSize = Read<uint32_t>(); arrayState.LastPos = _buffer.GetPosition():
\* neither is reached when a read threw
SetElementSize(r) ==
    IF r.cs.err # NoError THEN r.cs
    ELSE [r.cs EXCEPT !.stack = SetTop(@, [Top(@) EXCEPT !.ElementSize = r.ret,
                                                         !.LastPos = r.cs.pos])]

\* arrayState.Count = 0; arrayState.ElementSize = 0; arrayState.StartPos = GetPosition()
SetStartPos(cs) ==
    [cs EXCEPT !.stack = SetTop(@, [Top(@) EXCEPT !.Count = 0, !.ElementSize = 0,
                                                  !.StartPos = cs.pos])]

SetLastPos(cs) ==
    [cs EXCEPT !.stack = SetTop(@, [Top(@) EXCEPT !.LastPos = cs.pos])]

\* return arrayState.Count (READING), return 0 (WRITING)
BeginArrayReturn(cs0, mode, cs1) ==
    [cs |-> Logged("BeginArray", mode, cs0, cs1),
     ret |-> IF mode = READING /\ cs1.err = NoError THEN Top(cs1.stack).Count ELSE 0]

BeginArray(cs, mode) ==
    IF cs.err # NoError THEN [cs |-> cs, ret |-> 0]
    ELSE IF mode = READING
         THEN BeginArrayReturn(cs, mode,
                  SetElementSize(Read(
                      SetCount(Read([cs EXCEPT !.stack = Append(@, DefaultArrayState)],
                                    mode, 4)),
                      mode, 4)))
         ELSE BeginArrayReturn(cs, mode,
                  SetLastPos(Write(Write(
                      SetStartPos([cs EXCEPT !.stack = Append(@, DefaultArrayState)]),
                      mode, 0, 4), mode, 0, 4)))

\* variant: WRITING never records the size of the first element
NextArrayElement_NoFirstSize(cs, mode) ==
    IF cs.err # NoError THEN [cs |-> cs, ret |-> FALSE]
    ELSE
    LET arrayState == Top(cs.stack)
    IN  IF mode = READING
        THEN IF arrayState.Count = 0
             THEN [cs |-> Logged("NextArrayElement", mode, cs, cs), ret |-> FALSE]
             ELSE LET moved == IF arrayState.ElementSize # 0
                               THEN [arrayState EXCEPT !.LastPos = @ + arrayState.ElementSize]
                               ELSE arrayState
                      s2 == IF arrayState.ElementSize # 0
                            THEN SetPosition([cs EXCEPT !.stack = SetTop(@, moved)],
                                             moved.LastPos)
                            ELSE cs
                      s3 == [s2 EXCEPT !.stack = SetTop(@, [moved EXCEPT !.Count = @ - 1])]
                  IN  IF s2.err # NoError
                      THEN [cs |-> Logged("NextArrayElement", mode, cs, s2), ret |-> FALSE]
                      ELSE [cs |-> Logged("NextArrayElement", mode, cs, s3),
                            ret |-> arrayState.Count - 1 = 0]
        ELSE [cs |-> Logged("NextArrayElement", mode, cs,
                            [cs EXCEPT !.stack = SetTop(@, [arrayState EXCEPT
                                                             !.Count = @ + 1,
                                                             !.LastPos = cs.pos])]),
              ret |-> TRUE]

\* variant: WRITING takes ElementSize == 0, not Count == 0, for "first element"
NextArrayElement_SizeTest(cs, mode) ==
    IF cs.err # NoError THEN [cs |-> cs, ret |-> FALSE]
    ELSE
    LET arrayState == Top(cs.stack)
    IN  IF mode = READING
        THEN IF arrayState.Count = 0
             THEN [cs |-> Logged("NextArrayElement", mode, cs, cs), ret |-> FALSE]
             ELSE LET moved == IF arrayState.ElementSize # 0
                               THEN [arrayState EXCEPT !.LastPos = @ + arrayState.ElementSize]
                               ELSE arrayState
                      s2 == IF arrayState.ElementSize # 0
                            THEN SetPosition([cs EXCEPT !.stack = SetTop(@, moved)],
                                             moved.LastPos)
                            ELSE cs
                      s3 == [s2 EXCEPT !.stack = SetTop(@, [moved EXCEPT !.Count = @ - 1])]
                  IN  IF s2.err # NoError
                      THEN [cs |-> Logged("NextArrayElement", mode, cs, s2), ret |-> FALSE]
                      ELSE [cs |-> Logged("NextArrayElement", mode, cs, s3),
                            ret |-> arrayState.Count - 1 = 0]
        ELSE LET lastElSize == cs.pos - arrayState.LastPos
                 sized == IF arrayState.ElementSize = 0
                          THEN [arrayState EXCEPT !.ElementSize = lastElSize]
                          ELSE IF arrayState.ElementSize # lastElSize
                               THEN [arrayState EXCEPT !.ElementSize = 0]
                               ELSE arrayState
             IN  [cs |-> Logged("NextArrayElement", mode, cs,
                                [cs EXCEPT !.stack = SetTop(@, [sized EXCEPT
                                                                 !.Count = @ + 1,
                                                                 !.LastPos = cs.pos])]),
                  ret |-> TRUE]

\* variant: READING never seeks, whatever the stride
NextArrayElement_NoSeek(cs, mode) ==
    IF cs.err # NoError THEN [cs |-> cs, ret |-> FALSE]
    ELSE
    LET arrayState == Top(cs.stack)
    IN  IF mode = READING
        THEN IF arrayState.Count = 0
             THEN [cs |-> Logged("NextArrayElement", mode, cs, cs), ret |-> FALSE]
             ELSE [cs |-> Logged("NextArrayElement", mode, cs,
                                 [cs EXCEPT !.stack = SetTop(@, [arrayState EXCEPT
                                                                  !.Count = @ - 1])]),
                   ret |-> arrayState.Count - 1 = 0]
        ELSE LET lastElSize == cs.pos - arrayState.LastPos
                 sized == IF arrayState.Count = 0
                          THEN [arrayState EXCEPT !.ElementSize = lastElSize]
                          ELSE IF arrayState.ElementSize # lastElSize
                               THEN [arrayState EXCEPT !.ElementSize = 0]
                               ELSE arrayState
             IN  [cs |-> Logged("NextArrayElement", mode, cs,
                                [cs EXCEPT !.stack = SetTop(@, [sized EXCEPT
                                                                 !.Count = @ + 1,
                                                                 !.LastPos = cs.pos])]),
                  ret |-> TRUE]

NextArrayElement(cs, mode) ==
    IF cs.err # NoError THEN [cs |-> cs, ret |-> FALSE]
    ELSE
    LET arrayState == Top(cs.stack)
    IN  IF mode = READING
        THEN IF arrayState.Count = 0
             THEN [cs |-> Logged("NextArrayElement", mode, cs, cs), ret |-> FALSE]
             ELSE LET moved == IF arrayState.ElementSize # 0
                               THEN [arrayState EXCEPT !.LastPos = @ + arrayState.ElementSize]
                               ELSE arrayState
                      s2 == IF arrayState.ElementSize # 0
                            THEN SetPosition([cs EXCEPT !.stack = SetTop(@, moved)],
                                             moved.LastPos)
                            ELSE cs
                      s3 == [s2 EXCEPT !.stack = SetTop(@, [moved EXCEPT !.Count = @ - 1])]
                  IN  IF s2.err # NoError
                      THEN [cs |-> Logged("NextArrayElement", mode, cs, s2), ret |-> FALSE]
                      ELSE [cs |-> Logged("NextArrayElement", mode, cs, s3),
                            ret |-> arrayState.Count - 1 = 0]
        ELSE LET lastElSize == cs.pos - arrayState.LastPos
                 sized == IF arrayState.Count = 0
                          THEN [arrayState EXCEPT !.ElementSize = lastElSize]
                          ELSE IF arrayState.ElementSize # lastElSize
                               THEN [arrayState EXCEPT !.ElementSize = 0]
                               ELSE arrayState
             IN  [cs |-> Logged("NextArrayElement", mode, cs,
                                [cs EXCEPT !.stack = SetTop(@, [sized EXCEPT
                                                                 !.Count = @ + 1,
                                                                 !.LastPos = cs.pos])]),
                  ret |-> TRUE]

\* variant: the frame stays on the stack
PopArray_Keep(cs) == cs

PopArray(cs) == [cs EXCEPT !.stack = Pop(@)]

\* variant: WRITING leaves the cursor after the back-patched header
EndArray_NoRestore(cs, mode) ==
    IF cs.err # NoError THEN cs
    ELSE
    LET arrayState == Top(cs.stack)
        backupPos == cs.pos
    IN  IF mode = READING
        THEN Logged("EndArray", mode, cs, PopArray(cs))
        ELSE IF backupPos # arrayState.StartPos + 8 /\ arrayState.Count = 0
             THEN Logged("EndArray", mode, cs, Throw(cs, "MalformedArray"))
             ELSE Logged("EndArray", mode, cs,
                         PopArray(Write(Write(SetPosition(cs, arrayState.StartPos),
                                              mode, arrayState.Count, 4),
                                        mode, arrayState.ElementSize, 4)))

EndArray(cs, mode) ==
    IF cs.err # NoError THEN cs
    ELSE
    LET arrayState == Top(cs.stack)
        backupPos == cs.pos
    IN  IF mode = READING
        THEN Logged("EndArray", mode, cs, PopArray(cs))
        ELSE IF backupPos # arrayState.StartPos + 8 /\ arrayState.Count = 0
             THEN Logged("EndArray", mode, cs, Throw(cs, "MalformedArray"))
             ELSE Logged("EndArray", mode, cs,
                         PopArray(SetPosition(
                             Write(Write(SetPosition(cs, arrayState.StartPos),
                                         mode, arrayState.Count, 4),
                                   mode, arrayState.ElementSize, 4),
                             backupPos)))

(***************************************************************************)
(* User codecs.  A codec is described by a type descriptor t:              *)
(*   [k |-> "u", w]            cs.ReadWrite(v) on a scalar of w bytes      *)
(*   [k |-> "w", w]            cs.Write(v) on a scalar of w bytes          *)
(*   [k |-> "as", mem, save]   cs.ReadWriteAs<TMem, TSave>(v), unsigned    *)
(*                             types of mem and save bytes                 *)
(*   [k |-> "s"]               cs.ReadWrite(v) on a std::string            *)
(*   [k |-> "ws"]              cs.Write(v) on a std::string                *)
(*   [k |-> "vec", el]         cs.ReadWriteVector(v, f), f the codec of el *)
(*   [k |-> "arr", n, el, skip] cs.ReadWriteArray(v, f) on an array of n   *)
(*                             slots, f the codec of el returning          *)
(*                             el \notin skip                              *)
(*   [k |-> "rec", fs]         the codecs of the fields fs, in order       *)
(* and v is the in-memory value the codec is applied to.                   *)
(***************************************************************************)
RECURSIVE Default(_)
Default(t) ==
    CASE t.k = "u" -> 0
      [] t.k = "w" -> 0
      [] t.k = "as" -> 0
      [] t.k = "s" -> <<>>
      [] t.k = "ws" -> <<>>
      [] t.k = "vec" -> <<>>
      [] t.k = "arr" -> [i \in 1..t.n |-> Default(t.el)]
      [] t.k = "rec" -> [i \in 1..Len(t.fs) |-> Default(t.fs[i])]
      [] t.k = "chunk" -> Default(t.t)
      [] t.k = "seek" -> 0
      [] t.k = "put" -> 0

RECURSIVE Codec(_, _, _, _)
RECURSIVE ElementCodec(_, _, _, _)
RECURSIVE VectorReadLoop(_, _, _, _, _)
RECURSIVE VectorReadNext(_, _, _, _, _)
RECURSIVE VectorWriteLoop(_, _, _, _)
RECURSIVE ReadWriteVector(_, _, _, _)
RECURSIVE ArrayReadLoop(_, _, _, _, _)
RECURSIVE ArrayReadNext(_, _, _, _, _)
RECURSIVE ArrayWriteLoop(_, _, _, _)
RECURSIVE ArrayWriteNext(_, _, _, _)
RECURSIVE ReadWriteArray(_, _, _, _)
RECURSIVE FieldLoop(_, _, _, _, _)
RECURSIVE FieldNext(_, _, _, _, _)
RECURSIVE Reenter(_, _, _, _)
RECURSIVE ReadWriteChunk(_, _, _, _, _, _, _)

\* f(el) of a ReadWriteVector / ReadWriteArray call, with its call recorded
ElementCodecReturn(cs0, mode, r) ==
    [cs |-> Logged("f", mode, cs0, r.cs), ret |-> r.ret]

ElementCodec(cs, mode, t, v) ==
    IF cs.err # NoError THEN [cs |-> cs, ret |-> v]
    ELSE ElementCodecReturn(cs, mode, Codec(cs, mode, t, v))

\* for (size_t i = 0; i < count; i++) { auto& el = vec.emplace_back(); f(el); NextArrayElement(); }
VectorReadLoop(cs, el, i, count, vec) ==
    IF i >= count \/ cs.err # NoError THEN [cs |-> cs, ret |-> vec]
    ELSE VectorReadNext(ElementCodec(cs, READING, el, Default(el)), el, i, count, vec)

VectorReadNext(r, el, i, count, vec) ==
    VectorReadLoop(NextArrayElement(r.cs, READING).cs, el, i + 1, count, Append(vec, r.ret))

\* for (auto& el : vec) { f(el); NextArrayElement(); }
VectorWriteLoop(cs, el, i, vec) ==
    IF i > Len(vec) \/ cs.err # NoError THEN cs
    ELSE VectorWriteLoop(
             NextArrayElement(ElementCodec(cs, WRITING, el, vec[i]).cs, WRITING).cs,
             el, i + 1, vec)

\* variant: the loop runs while i <= count
VectorReadFrom_OneMore(b, el, vec) ==
    VectorReadLoop(b.cs, el, 0, b.ret + 1, IF b.cs.err = NoError THEN <<>> ELSE vec)

\* auto count = BeginArray(); vec.clear(); then the loop over count (b is what
\* BeginArray returned): vec.clear() is not reached when BeginArray threw
VectorReadFrom(b, el, vec) ==
    VectorReadLoop(b.cs, el, 0, b.ret, IF b.cs.err = NoError THEN <<>> ELSE vec)

EndArrayReturn(r, mode) == [cs |-> EndArray(r.cs, mode), ret |-> r.ret]

ReadWriteVector(cs, mode, el, vec) ==
    IF cs.err # NoError THEN [cs |-> cs, ret |-> vec]
    ELSE IF mode = READING
         THEN EndArrayReturn(VectorReadFrom(BeginArray(cs, mode), el, vec), mode)
         ELSE [cs |-> EndArray(VectorWriteLoop(BeginArray(cs, mode).cs, el, 1, vec), mode),
               ret |-> vec]

\* for (size_t i = 0; i < count; i++) { if (i < TArrSize) f(arr[i]); NextArrayElement(); }
ArrayReadLoop(cs, t, i, count, arr) ==
    IF i >= count \/ cs.err # NoError THEN [cs |-> cs, ret |-> arr]
    ELSE IF i < t.n
         THEN ArrayReadNext(ElementCodec(cs, READING, t.el, arr[i + 1]), t, i, count, arr)
         ELSE ArrayReadLoop(NextArrayElement(cs, READING).cs, t, i + 1, count, arr)

ArrayReadNext(r, t, i, count, arr) ==
    ArrayReadLoop(NextArrayElement(r.cs, READING).cs, t, i + 1, count,
                  [arr EXCEPT ![i + 1] = r.ret])

\* for (auto& el : arr) { if (f(el)) NextArrayElement(); }
ArrayWriteLoop(cs, t, i, arr) ==
    IF i > t.n \/ cs.err # NoError THEN cs
    ELSE ArrayWriteNext(ElementCodec(cs, WRITING, t.el, arr[i]).cs, t, i, arr)

\* variant: NextArrayElement is called for every slot
ArrayWriteNext_Always(cs, t, i, arr) ==
    ArrayWriteLoop(NextArrayElement(cs, WRITING).cs, t, i + 1, arr)

ArrayWriteNext(cs, t, i, arr) ==
    IF arr[i] \notin t.skip
    THEN ArrayWriteLoop(NextArrayElement(cs, WRITING).cs, t, i + 1, arr)
    ELSE ArrayWriteLoop(cs, t, i + 1, arr)

\* variant: the slots are not reset before the loop
ArrayReadFrom_NoReset(b, t, arr) == ArrayReadLoop(b.cs, t, 0, b.ret, arr)

\* for (auto& el : arr) el = {}; then the loop over the count BeginArray returned (b)
ArrayReadFrom(b, t, arr) ==
    ArrayReadLoop(b.cs, t, 0, b.ret, IF b.cs.err = NoError THEN Default(t) ELSE arr)

ReadWriteArray(cs, mode, t, arr) ==
    IF cs.err # NoError THEN [cs |-> cs, ret |-> arr]
    ELSE IF mode = READING
         THEN EndArrayReturn(ArrayReadFrom(BeginArray(cs, mode), t, arr), mode)
         ELSE [cs |-> EndArray(ArrayWriteLoop(BeginArray(cs, mode).cs, t, 1, arr), mode),
               ret |-> arr]

\* the codecs of the fields of a struct, one after the other
FieldLoop(cs, mode, fs, i, v) ==
    IF i > Len(fs) \/ cs.err # NoError THEN [cs |-> cs, ret |-> v]
    ELSE FieldNext(Codec(cs, mode, fs[i], v[i]), mode, fs, i, v)

FieldNext(r, mode, fs, i, v) ==
    FieldLoop(r.cs, mode, fs, i + 1, [v EXCEPT ![i] = r.ret])

Codec(cs, mode, t, v) ==
    CASE t.k = "u" -> ReadWrite(cs, mode, v, t.w)
      [] t.k = "w" -> [cs |-> Write(cs, mode, v, t.w), ret |-> v]
      [] t.k = "as" -> ReadWriteAs(cs, mode, v, t.mem, t.save)
      [] t.k = "s" -> ReadWriteString(cs, mode, v)
      [] t.k = "ws" -> [cs |-> WriteStringView(cs, mode, v), ret |-> v]
      [] t.k = "vec" -> ReadWriteVector(cs, mode, t.el, v)
      [] t.k = "arr" -> ReadWriteArray(cs, mode, t, v)
      [] t.k = "rec" -> FieldLoop(cs, mode, t.fs, 1, v)
      [] t.k = "chunk" -> Reenter(cs, mode, t, v)
      [] t.k = "seek" -> [cs |-> GetStream_SetPosition(cs, t.p), ret |-> v]
      [] t.k = "put" -> [cs |-> GetStream_Write(cs, LE(v, t.w)), ret |-> v]

(***************************************************************************)
(* External primitives.  Crypt::SHA1, util_zlib_deflate and                *)
(* util_zlib_inflate are stand-ins: a 20-byte digest that depends on       *)
(* every byte, and a framing that inflate inverts.  Either zlib call may   *)
(* report failure (ok = FALSE): deflate returns an empty optional, inflate *)
(* a null pointer and leaves *data_out_size as the caller set it.          *)
(***************************************************************************)
RECURSIVE WeightedSum(_, _, _)
WeightedSum(data, i, k) ==
    IF i > Len(data) THEN 0 ELSE ((i + k) * (data[i] + 1) + WeightedSum(data, i + 1, k)) % 256

Crypt_SHA1(data) == [k \in 1..20 |-> (WeightedSum(data, 1, k) + Len(data) + k) % 256]

util_zlib_deflate(data, ok) ==
    IF ok THEN [present |-> TRUE, bytes |-> <<120, 156>> \o data]
    ELSE [present |-> FALSE, bytes |-> <<>>]

util_zlib_inflate(data, outSize, ok) ==
    IF ok /\ Len(data) >= 2 /\ SubSeq(data, 1, 2) = <<120, 156>>
    THEN [null |-> FALSE, bytes |-> SubSeq(data, 3, Len(data)), size |-> Len(data) - 2]
    ELSE [null |-> TRUE, bytes |-> <<>>, size |-> outSize]

(***************************************************************************)
(* The underlying IStream (stream.data, stream.pos) and the raw images of  *)
(* Header and ChunkEntry written by WriteValue / read by ReadValue.        *)
(***************************************************************************)
DefaultHeader ==
    [Magic |-> 0, TargetVersion |-> 0, MinVersion |-> 0, NumChunks |-> 0,
     UncompressedSize |-> 0, Compression |-> 0, CompressedSize |-> 0,
     Sha1 |-> Zeros(20), padding |-> Zeros(8)]

DefaultChunkEntry == [Id |-> 0, Offset |-> 0, Length |-> 0]

HeaderBytes(h) ==
    LE(h.Magic, 4) \o LE(h.TargetVersion, 4) \o LE(h.MinVersion, 4) \o LE(h.NumChunks, 4)
    \o LE(h.UncompressedSize, 8) \o LE(h.Compression, 4) \o LE(h.CompressedSize, 8)
    \o h.Sha1 \o h.padding

HeaderFromBytes(b) ==
    [Magic |-> FromLE(SubSeq(b, 1, 4)), TargetVersion |-> FromLE(SubSeq(b, 5, 8)),
     MinVersion |-> FromLE(SubSeq(b, 9, 12)), NumChunks |-> FromLE(SubSeq(b, 13, 16)),
     UncompressedSize |-> FromLE(SubSeq(b, 17, 24)), Compression |-> FromLE(SubSeq(b, 25, 28)),
     CompressedSize |-> FromLE(SubSeq(b, 29, 36)),
     Sha1 |-> SubSeq(b, 37, 56), padding |-> SubSeq(b, 57, 64)]

\* a uint64_t above the integers TLC has is held as its value minus 2^64: -4 is
\* 2^64 - 4.  LE gives such a number its two's-complement image; this reads it back
FromLE64(b) ==
    IF b[8] >= 128 THEN -FromLE([i \in 1..8 |-> 255 - b[i]]) - 1 ELSE FromLE(b)

ChunkEntryBytes(e) == LE(e.Id, 4) \o LE(e.Offset, 8) \o LE(e.Length, 8)

ChunkEntryFromBytes(b) ==
    [Id |-> FromLE(SubSeq(b, 1, 4)), Offset |-> FromLE(SubSeq(b, 5, 12)),
     Length |-> FromLE64(SubSeq(b, 13, 20))]

\* IStream::Read(dst, n): res.ok is FALSE when the stream ends first
StreamRead(stream, n) ==
    IF stream.pos + n > Len(stream.data)
    THEN [ok |-> FALSE, stream |-> stream, bytes |-> <<>>]
    ELSE [ok |-> TRUE, stream |-> [stream EXCEPT !.pos = @ + n],
          bytes |-> SubSeq(stream.data, stream.pos + 1, stream.pos + n)]

StreamWrite(stream, bytes) == MemoryStream_Write(stream, bytes)

RECURSIVE WriteChunkTable(_, _, _)
WriteChunkTable(stream, chunks, i) ==
    IF i > Len(chunks) THEN stream
    ELSE WriteChunkTable(StreamWrite(stream, ChunkEntryBytes(chunks[i])), chunks, i + 1)

\* for (uint32_t i = 0; i < _header.NumChunks; i++) _chunks.push_back(ReadValue<ChunkEntry>())
RECURSIVE ReadChunkTable(_, _, _, _)
ReadChunkTable(stream, i, numChunks, chunks) ==
    IF i >= numChunks THEN [ok |-> TRUE, stream |-> stream, chunks |-> chunks]
    ELSE LET r == StreamRead(stream, ChunkEntrySize)
         IN  IF ~r.ok THEN [ok |-> FALSE, stream |-> stream, chunks |-> chunks]
             ELSE ReadChunkTable(r.stream, i + 1, numChunks,
                                 Append(chunks, ChunkEntryFromBytes(r.bytes)))

\* do { readLen = min(bytesLeft, sizeof(temp)); Read; Write; bytesLeft -= readLen } while (bytesLeft > 0)
RECURSIVE ReadBlocks(_, _, _)
ReadBlocks(stream, buffer, bytesLeft) ==
    LET readLen == Min(bytesLeft, BlockSize)
        r == StreamRead(stream, readLen)
        b == MemoryStream_Write(buffer, r.bytes)
    IN  IF ~r.ok THEN [ok |-> FALSE, stream |-> stream, buffer |-> buffer]
        ELSE IF bytesLeft - readLen > 0 THEN ReadBlocks(r.stream, b, bytesLeft - readLen)
        ELSE [ok |-> TRUE, stream |-> r.stream, buffer |-> b]

EmptyBuffer == [data |-> <<>>, pos |-> 0]

(***************************************************************************)
(* OrcaStream: constructor, destructor, ReadWriteChunk, SeekChunk          *)
(***************************************************************************)
\* OrcaStream(IStream& stream, Mode mode), mode == READING: the header (hd), the
\* chunk table (tab), the stored payload (blk), then the inflation.  A read that
\* fails throws out of the constructor with the stream where the reads so far left it
ConstructFailed(header, chunks, stream) ==
    [err |-> "Truncated", header |-> header, chunks |-> chunks, buffer |-> EmptyBuffer,
     stream |-> stream]

\* _buffer.Clear(); _buffer.Write(uncompressedData, outUncompressedSize)
Uncompress(buffer, inf) ==
    MemoryStream_Write(MemoryStream_Clear(buffer), SubSeq(inf.bytes, 1, inf.size))

ReadPayload(header, tab, blk, inflateOk) ==
    IF ~blk.ok THEN ConstructFailed(header, tab.chunks, blk.stream)
    ELSE [err |-> NoError, header |-> header, chunks |-> tab.chunks,
          buffer |-> IF header.Compression = COMPRESSION_GZIP
                     THEN Uncompress(blk.buffer,
                                     util_zlib_inflate(blk.buffer.data, 0, inflateOk))
                     ELSE blk.buffer,
          stream |-> blk.stream]

\* variant: the stored payload is taken to be UncompressedSize bytes long
ReadDirectory_UncompressedSize(header, tab, inflateOk) ==
    IF ~tab.ok THEN ConstructFailed(header, tab.chunks, tab.stream)
    ELSE ReadPayload(header, tab,
                     ReadBlocks(tab.stream, EmptyBuffer, header.UncompressedSize),
                     inflateOk)

ReadDirectory(header, tab, inflateOk) ==
    IF ~tab.ok THEN ConstructFailed(header, tab.chunks, tab.stream)
    ELSE ReadPayload(header, tab, ReadBlocks(tab.stream, EmptyBuffer, header.CompressedSize),
                     inflateOk)

ReadHeader(hd, header, inflateOk) ==
    IF ~hd.ok THEN ConstructFailed(DefaultHeader, <<>>, hd.stream)
    ELSE ReadDirectory(header, ReadChunkTable(hd.stream, 0, header.NumChunks, <<>>),
                       inflateOk)

HeaderOf(hd) == IF hd.ok THEN HeaderFromBytes(hd.bytes) ELSE DefaultHeader

ParseStream(hd, inflateOk) == ReadHeader(hd, HeaderOf(hd), inflateOk)

OrcaStreamReading(stream, inflateOk) ==
    ParseStream(StreamRead(stream, HeaderSize), inflateOk)

\* OrcaStream(IStream& stream, Mode mode), mode == WRITING
OrcaStreamWriting ==
    [header |-> [DefaultHeader EXCEPT !.Compression = COMPRESSION_GZIP],
     chunks |-> <<>>, buffer |-> EmptyBuffer]

\* Header& GetHeader(): the reference lets the caller assign a field of _header
SetHeaderField(header, f, v) == [header EXCEPT ![f] = v]

\* variant: a failed deflate leaves Compression as it was
DestroyWriting_NoFallback(header, chunks, buffer, stream, deflateOk) ==
    LET uncompressedData == buffer.data
        uncompressedSize == Len(buffer.data)
        h1 == [header EXCEPT !.NumChunks = FromLE(LE(Len(chunks), 4)),
                             !.UncompressedSize = uncompressedSize,
                             !.CompressedSize = uncompressedSize,
                             !.Sha1 = Crypt_SHA1(uncompressedData)]
        compressedBytes == IF h1.Compression = COMPRESSION_GZIP
                           THEN util_zlib_deflate(uncompressedData, deflateOk)
                           ELSE [present |-> FALSE, bytes |-> <<>>]
        h2 == IF h1.Compression = COMPRESSION_GZIP /\ compressedBytes.present
              THEN [h1 EXCEPT !.CompressedSize = Len(compressedBytes.bytes)]
              ELSE h1
        s1 == StreamWrite(stream, HeaderBytes(h2))
        s2 == WriteChunkTable(s1, chunks, 1)
        s3 == IF compressedBytes.present
              THEN StreamWrite(s2, compressedBytes.bytes)
              ELSE StreamWrite(s2, uncompressedData)
    IN  [header |-> h2, stream |-> s3]

\* ~OrcaStream(), _mode == WRITING
DestroyWriting(header, chunks, buffer, stream, deflateOk) ==
    LET uncompressedData == buffer.data
        uncompressedSize == Len(buffer.data)
        h1 == [header EXCEPT !.NumChunks = FromLE(LE(Len(chunks), 4)),
                             !.UncompressedSize = uncompressedSize,
                             !.CompressedSize = uncompressedSize,
                             !.Sha1 = Crypt_SHA1(uncompressedData)]
        compressedBytes == IF h1.Compression = COMPRESSION_GZIP
                           THEN util_zlib_deflate(uncompressedData, deflateOk)
                           ELSE [present |-> FALSE, bytes |-> <<>>]
        h2 == IF h1.Compression = COMPRESSION_GZIP
              THEN IF compressedBytes.present
                   THEN [h1 EXCEPT !.CompressedSize = Len(compressedBytes.bytes)]
                   ELSE [h1 EXCEPT !.Compression = COMPRESSION_NONE]
              ELSE h1
        s1 == StreamWrite(stream, HeaderBytes(h2))
        s2 == WriteChunkTable(s1, chunks, 1)
        s3 == IF compressedBytes.present
              THEN StreamWrite(s2, compressedBytes.bytes)
              ELSE StreamWrite(s2, uncompressedData)
    IN  [header |-> h2, stream |-> s3]

\* variant: the index of the last entry with this id
FindChunk_Last(chunks, id) ==
    IF \E i \in 1..Len(chunks) : chunks[i].Id = id
    THEN CHOOSE i \in 1..Len(chunks) :
            chunks[i].Id = id /\ \A j \in (i + 1)..Len(chunks) : chunks[j].Id # id
    ELSE 0

\* std::find_if over _chunks: the index of the first entry with this id, 0 for end()
FindChunk(chunks, id) ==
    IF \E i \in 1..Len(chunks) : chunks[i].Id = id
    THEN CHOOSE i \in 1..Len(chunks) :
            chunks[i].Id = id /\ \A j \in 1..(i - 1) : chunks[j].Id # id
    ELSE 0

SeekChunk(chunks, buffer, id) ==
    LET result == FindChunk(chunks, id)
    IN  IF result # 0
        THEN IF MemoryStream_CanSeek(buffer, chunks[result].Offset)
             THEN [ret |-> TRUE, err |-> NoError,
                   buffer |-> [buffer EXCEPT !.pos = chunks[result].Offset]]
             ELSE [ret |-> FALSE, err |-> "SeekOutOfBounds", buffer |-> buffer]
        ELSE [ret |-> FALSE, err |-> NoError, buffer |-> buffer]

\* ReadWriteChunk(chunkId, f): f is the codec of t applied to v.  res.calls counts
\* the invocations of f, res.ret is the returned bool (FALSE also when it threw: see err)
CodecResult(r, ret, chunks, currentChunk) ==
    [ret |-> ret, err |-> r.cs.err, calls |-> 1, chunks |-> chunks,
     buffer |-> [data |-> r.cs.data, pos |-> r.cs.pos], currentChunk |-> currentChunk,
     val |-> r.ret, log |-> r.cs.log, stack |-> r.cs.stack]

ReadChunkResult(r, chunks, currentChunk) ==
    CodecResult(r, r.cs.err = NoError, chunks, currentChunk)

\* variant: the codec is invoked whether or not SeekChunk found the chunk
ReadingChunk_Always(sk, mode, chunks, currentChunk, t, v) ==
    ReadChunkResult(Codec(NewChunkStream(sk.buffer, chunks, currentChunk), mode, t, v),
                    chunks, currentChunk)

\* READING: if (SeekChunk(chunkId)) { f(stream); return true; } else return false;
ReadingChunk(sk, mode, chunks, currentChunk, t, v) ==
    IF sk.ret
    THEN ReadChunkResult(Codec(NewChunkStream(sk.buffer, chunks, currentChunk), mode, t, v),
                         chunks, currentChunk)
    ELSE [ret |-> FALSE, err |-> sk.err, calls |-> 0, chunks |-> chunks,
          buffer |-> sk.buffer, currentChunk |-> currentChunk, val |-> v, log |-> <<>>,
          stack |-> <<>>]

\* variant: Length is the cursor after the codec, not its distance from Offset
WrittenChunk_EndAsLength(r, c0, chunks) ==
    IF r.cs.err = NoError
    THEN CodecResult(r, TRUE, Append(chunks, [c0 EXCEPT !.Length = r.cs.pos]),
                     [c0 EXCEPT !.Length = r.cs.pos])
    ELSE CodecResult(r, FALSE, chunks, c0)

\* variant: Length counts one byte past the cursor
WrittenChunk_Inclusive(r, c0, chunks) ==
    IF r.cs.err = NoError
    THEN CodecResult(r, TRUE, Append(chunks, [c0 EXCEPT !.Length = r.cs.pos - c0.Offset + 1]),
                     [c0 EXCEPT !.Length = r.cs.pos - c0.Offset + 1])
    ELSE CodecResult(r, FALSE, chunks, c0)

\* variant: the entry is appended whether or not the codec threw
WrittenChunk_AppendOnThrow(r, c0, chunks) ==
    CodecResult(r, r.cs.err = NoError,
                Append(chunks, [c0 EXCEPT !.Length = r.cs.pos - c0.Offset]),
                [c0 EXCEPT !.Length = r.cs.pos - c0.Offset])

\* WRITING: _currentChunk.Length = GetPosition() - Offset; _chunks.push_back(_currentChunk)
\* c0 and chunks are the members as f left them; the difference is taken in uint64_t
WrittenChunk(r, c0, chunks) ==
    IF r.cs.err = NoError
    THEN CodecResult(r, TRUE, Append(chunks, [c0 EXCEPT !.Length = r.cs.pos - c0.Offset]),
                     [c0 EXCEPT !.Length = r.cs.pos - c0.Offset])
    ELSE CodecResult(r, FALSE, chunks, c0)

\* f(stream) has run: _currentChunk and _chunks are read again from the members
WritingChunk(r) == WrittenChunk(r, r.cs.cur, r.cs.chunks)

\* WRITING: _currentChunk is set (Id, Offset, Length 0) before f(stream) runs
ReadWriteChunk(mode, chunks, buffer, currentChunk, chunkId, t, v) ==
    IF mode = READING
    THEN ReadingChunk(SeekChunk(chunks, buffer, chunkId), mode, chunks, currentChunk, t, v)
    ELSE WritingChunk(Codec(NewChunkStream(buffer, chunks,
                                           [Id |-> chunkId, Offset |-> buffer.pos,
                                            Length |-> 0]),
                            mode, t, v))

\* a codec that calls ReadWriteChunk(t.id, codec of t.t) on the container it runs in:
\* the call works on the same _buffer, _chunks and _currentChunk, with a ChunkStream
\* (and array stack) of its own; what it throws unwinds through the calling codec
Reentered(cs, res) ==
    [cs |-> [cs EXCEPT !.data = res.buffer.data, !.pos = res.buffer.pos,
                       !.chunks = res.chunks, !.cur = res.currentChunk,
                       !.err = res.err, !.log = @ \o res.log],
     ret |-> res.val]

Reenter(cs, mode, t, v) ==
    IF cs.err # NoError THEN [cs |-> cs, ret |-> v]
    ELSE Reentered(cs, ReadWriteChunk(mode, cs.chunks, [data |-> cs.data, pos |-> cs.pos],
                                      cs.cur, t.id, t.t, v))

(***************************************************************************)
(* The codecs and values the operations are driven with.                   *)
(***************************************************************************)
U(w) == [k |-> "u", w |-> w]
W(w) == [k |-> "w", w |-> w]
As(mem, save) == [k |-> "as", mem |-> mem, save |-> save]
Str == [k |-> "s"]
WStr == [k |-> "ws"]
Vec(el) == [k |-> "vec", el |-> el]
Arr(n, el, skip) == [k |-> "arr", n |-> n, el |-> el, skip |-> skip]
Rec(fs) == [k |-> "rec", fs |-> fs]
\* what a callable can do besides: re-enter ReadWriteChunk, seek or write _buffer
\* through GetStream()
Chunk(id, t) == [k |-> "chunk", id |-> id, t |-> t]
Seek(p) == [k |-> "seek", p |-> p]
Put(w) == [k |-> "put", w |-> w]

SeqsUpTo(S, n) == UNION {[1..m -> S] : m \in 0..n}

\* env: values written under Spec; frame: values written under SpecFrame; call:
\* values written under SpecCallable;
\* readAs: the codecs (indices) a chunk written with this codec is read back with
Types ==
    << [t |-> U(4), env |-> {16909060}, frame |-> {1, 16909060}, readAs |-> {1},
        call |-> {16909060}],
       [t |-> Str, env |-> {<<97>>, <<97, 0, 98>>},
        frame |-> {<<>>, <<97>>, <<97, 98>>, <<97, 0, 98>>, <<0>>}, readAs |-> {2}, call |-> {}],
       [t |-> Arr(2, U(1), {1}), env |-> [1..2 -> {1, 2}], frame |-> [1..2 -> {1, 2}],
        readAs |-> {3, 9, 15}, call |-> {<<1, 1>>, <<2, 2>>}],
       [t |-> Rec(<<Vec(Str), U(2)>>),
        env |-> {<< <<<<97>>, <<>>>>, 258 >>, << <<>>, 1 >>},
        frame |-> {<<v, 258>> : v \in SeqsUpTo({<<>>, <<97>>}, 2)}, readAs |-> {4, 16}, call |-> {}],
       [t |-> Vec(Vec(U(1))), env |-> {<< <<1>>, <<2>> >>},
        frame |-> SeqsUpTo({<<>>, <<1>>, <<1, 2>>}, MaxLen), readAs |-> {5}, call |-> {}],
       [t |-> Vec(U(2)), env |-> {}, frame |-> SeqsUpTo({1, 258}, MaxLen),
        readAs |-> {6, 9, 10, 11, 12}, call |-> {}],
       [t |-> Vec(Str), env |-> {}, frame |-> SeqsUpTo({<<>>, <<97>>, <<97, 0, 98>>}, MaxLen),
        readAs |-> {7, 13, 14}, call |-> {}],
       [t |-> Vec(Rec(<<>>)), env |-> {}, frame |-> SeqsUpTo({<<>>}, MaxLen), readAs |-> {8}, call |-> {}],
       [t |-> Vec(U(1)), env |-> {}, frame |-> {}, readAs |-> {9}, call |-> {}],
       [t |-> Vec(U(4)), env |-> {}, frame |-> {}, readAs |-> {10}, call |-> {}],
       [t |-> Arr(2, U(2), {}), env |-> {}, frame |-> {}, readAs |-> {11}, call |-> {}],
       [t |-> Arr(4, U(2), {}), env |-> {}, frame |-> {}, readAs |-> {12}, call |-> {}],
       [t |-> Arr(2, Str, {}), env |-> {}, frame |-> {}, readAs |-> {13}, call |-> {}],
       [t |-> Arr(4, Str, {}), env |-> {}, frame |-> {}, readAs |-> {14}, call |-> {}],
       [t |-> Arr(1, U(1), {}), env |-> {}, frame |-> {}, readAs |-> {15}, call |-> {}],
       [t |-> Rec(<<Arr(1, Str, {}), U(2)>>), env |-> {}, frame |-> {}, readAs |-> {16}, call |-> {}],
       [t |-> Vec(Arr(2, U(1), {1})), env |-> {},
        frame |-> {<< <<2, 2>>, <<1, 1>> >>, << <<2, 2>>, <<1, 2>> >>}, readAs |-> {17}, call |-> {}],
       [t |-> Rec(<<W(2), WStr, As(4, 1), As(1, 2)>>), env |-> {},
        frame |-> {<<258, <<97>>, 5, 9>>, <<1, <<>>, 300, 3>>}, readAs |-> {18}, call |-> {}],
       [t |-> Rec(<<U(1), Chunk(2, U(1)), U(1)>>), env |-> {}, frame |-> {}, readAs |-> {19},
        call |-> {<<1, 2, 3>>}],
       [t |-> Rec(<<Chunk(2, U(1)), Arr(2, U(1), {1})>>), env |-> {}, frame |-> {},
        readAs |-> {20}, call |-> {<<5, <<1, 1>>>>}],
       [t |-> Rec(<<U(4), Seek(0)>>), env |-> {}, frame |-> {}, readAs |-> {21},
        call |-> {<<16909060, 0>>}],
       [t |-> Rec(<<Put(1), U(1)>>), env |-> {}, frame |-> {}, readAs |-> {22},
        call |-> {<<9, 4>>}] >>

TypeIdx == 1..Len(Types)

WriteIds == {1, 2}
ReadIds == {1, 2, 3}

\* what the reader's variable holds before the codec reads into it
RECURSIVE Dirty(_)
Dirty(t) ==
    CASE t.k = "u" -> 7
      [] t.k = "w" -> 7
      [] t.k = "as" -> 7
      [] t.k = "s" -> <<120>>
      [] t.k = "ws" -> <<120>>
      [] t.k = "vec" -> <<Dirty(t.el)>>
      [] t.k = "arr" -> [i \in 1..t.n |-> Dirty(t.el)]
      [] t.k = "rec" -> [i \in 1..Len(t.fs) |-> Dirty(t.fs[i])]
      [] t.k = "chunk" -> Dirty(t.t)
      [] t.k = "seek" -> 7
      [] t.k = "put" -> 7

(***************************************************************************)
(* State: the fields of one OrcaStream at a time (first the writer, then,  *)
(* over the bytes it emitted, the reader), the underlying stream, and the  *)
(* record of the calls made so far.                                        *)
(***************************************************************************)
VARIABLES phase, mode, header, chunks, buffer, currentChunk, stream,
          last, written, dirTypes, released, edits

vars == <<phase, mode, header, chunks, buffer, currentChunk, stream,
          last, written, dirTypes, released, edits>>

NoCall ==
    [op |-> "none", id |-> 0, ti |-> 0, ok |-> TRUE, ret |-> FALSE, err |-> NoError,
     calls |-> 0, log |-> <<>>, stack |-> <<>>,
     pre |-> [chunks |-> <<>>, buffer |-> EmptyBuffer, header |-> DefaultHeader,
              stream |-> EmptyBuffer]]

Pre == [chunks |-> chunks, buffer |-> buffer, header |-> header, stream |-> stream]

Init ==
    /\ phase = "WRITING"
    /\ mode = WRITING
    /\ header = OrcaStreamWriting.header
    /\ chunks = OrcaStreamWriting.chunks
    /\ buffer = OrcaStreamWriting.buffer
    /\ currentChunk = DefaultChunkEntry
    /\ stream = EmptyBuffer
    /\ last = [NoCall EXCEPT !.op = "construct"]
    /\ written = <<>>
    /\ dirTypes = <<>>
    /\ released = [chunks |-> <<>>, data |-> <<>>]
    /\ edits = 0

\* writer.ReadWriteChunk(id, codec of Types[i].t applied to v), r its outcome
WriteOutcome(r, id, i, v) ==
    /\ chunks' = r.chunks
    /\ buffer' = r.buffer
    /\ currentChunk' = r.currentChunk
    /\ last' = [NoCall EXCEPT !.op = "write", !.id = id, !.ti = i, !.ret = r.ret,
                              !.err = r.err, !.calls = r.calls, !.log = r.log,
                              !.stack = r.stack, !.pre = Pre]
    /\ written' = Append(written, [id |-> id, ti |-> i, val |-> v, err |-> r.err,
                                   off |-> buffer.pos, end |-> r.buffer.pos])
    /\ dirTypes' = dirTypes \o [k \in 1..(Len(r.chunks) - Len(chunks)) |-> i]

WriteChunk(id, i, v) ==
    /\ phase = "WRITING"
    /\ Len(written) < MaxChunks
    /\ WriteOutcome(ReadWriteChunk(mode, chunks, buffer, currentChunk, id, Types[i].t, v),
                    id, i, v)
    /\ UNCHANGED <<phase, mode, header, stream, released, edits>>

\* os.GetHeader().f = v, on the writer or on the reader
GetHeader(f, v) ==
    /\ phase \in {"WRITING", "READING"}
    /\ edits < MaxHeaderEdits
    /\ header' = SetHeaderField(header, f, v)
    /\ edits' = edits + 1
    /\ last' = [NoCall EXCEPT !.op = "getheader", !.pre = Pre]
    /\ UNCHANGED <<phase, mode, chunks, buffer, currentChunk, stream, written, dirTypes,
                   released>>

\* the writer goes out of scope: ~OrcaStream() emits the container
ReleaseOutcome(r) ==
    /\ header' = r.header
    /\ stream' = r.stream

Release(deflateOk) ==
    /\ phase = "WRITING"
    /\ ReleaseOutcome(DestroyWriting(header, chunks, buffer, stream, deflateOk))
    /\ phase' = "released"
    /\ last' = [NoCall EXCEPT !.op = "release", !.ok = deflateOk, !.pre = Pre]
    /\ released' = [chunks |-> chunks, data |-> buffer.data]
    /\ UNCHANGED <<mode, chunks, buffer, currentChunk, written, dirTypes, edits>>

\* a reader is constructed over the emitted bytes, read from their start
OpenOutcome(r, inflateOk) ==
    /\ phase' = IF r.err = NoError THEN "READING" ELSE "failed"
    /\ header' = r.header
    /\ chunks' = r.chunks
    /\ buffer' = r.buffer
    /\ stream' = r.stream
    /\ last' = [NoCall EXCEPT !.op = "open", !.ok = inflateOk, !.err = r.err, !.pre = Pre]

Open(inflateOk) ==
    /\ phase = "released"
    /\ OpenOutcome(OrcaStreamReading([stream EXCEPT !.pos = 0], inflateOk), inflateOk)
    /\ mode' = READING
    /\ currentChunk' = DefaultChunkEntry
    /\ UNCHANGED <<written, dirTypes, released, edits>>

\* reader.ReadWriteChunk(id, codec of Types[j].t) into a variable holding Dirty
ReadOutcome(r, id, j) ==
    /\ chunks' = r.chunks
    /\ buffer' = r.buffer
    /\ currentChunk' = r.currentChunk
    /\ last' = [op |-> "read", id |-> id, ti |-> j, ok |-> TRUE, ret |-> r.ret,
                err |-> r.err, calls |-> r.calls, log |-> r.log, stack |-> r.stack,
                pre |-> Pre, val |-> r.val]

ReadChunk(id, j) ==
    /\ phase = "READING"
    /\ ReadOutcome(ReadWriteChunk(mode, chunks, buffer, currentChunk, id, Types[j].t,
                                  Dirty(Types[j].t)), id, j)
    /\ UNCHANGED <<phase, mode, header, stream, written, dirTypes, released, edits>>

\* the reader goes out of scope: ~OrcaStream() in READING mode does nothing
Close ==
    /\ phase = "READING"
    /\ phase' = "closed"
    /\ last' = [NoCall EXCEPT !.op = "close", !.pre = Pre]
    /\ UNCHANGED <<mode, header, chunks, buffer, currentChunk, stream, written,
                   dirTypes, released, edits>>

\* the codec the first directory entry with this id was written with
WrittenType(id) ==
    IF FindChunk(chunks, id) # 0 /\ FindChunk(chunks, id) <= Len(dirTypes)
    THEN dirTypes[FindChunk(chunks, id)] ELSE 1

\* the fields a caller assigns through GetHeader(): the identification words, a
\* Compression other than the constructor's, and a count the destructor recomputes
HeaderEdits ==
    {<<"Magic", 1263223131>>, <<"TargetVersion", 7>>, <<"MinVersion", 3>>,
     <<"Compression", 0>>, <<"Compression", 2>>, <<"NumChunks", 9>>}

EnvTypes == {i \in TypeIdx : Types[i].env # {}}
FrameTypes == {i \in TypeIdx : Types[i].frame # {}}

\* the codecs of the containers whose header the caller assigns; the header is used
\* by the constructor and the destructor only, the chunk codecs never see it
HeaderTypes == {1}
PlainChunks == \A k \in 1..Len(written) : written[k].ti \in HeaderTypes

\* Spec: up to MaxChunks chunks, each read back with the codec that wrote it
WriteAny ==
    \E id \in WriteIds, i \in EnvTypes : \E v \in Types[i].env :
        (edits > 0 => i \in HeaderTypes) /\ WriteChunk(id, i, v)
ReleaseAny == \E ok \in BOOLEAN : Release(ok)
OpenAny == \E ok \in BOOLEAN : Open(ok)
ReadAny == \E id \in ReadIds : ReadChunk(id, WrittenType(id))
GetHeaderAny == \E e \in HeaderEdits : PlainChunks /\ GetHeader(e[1], e[2])

Next == WriteAny \/ GetHeaderAny \/ ReleaseAny \/ OpenAny \/ ReadAny \/ Close

Spec == Init /\ [][Next]_vars

\* SpecFrame: one chunk holding one value, read back with the codec that wrote it
\* or one of its variants (another capacity, another element width)
WriteFrame ==
    \E i \in FrameTypes : \E v \in Types[i].frame :
        written = <<>> /\ (edits > 0 => i \in HeaderTypes) /\ WriteChunk(1, i, v)
ReleaseFrame == Release(TRUE)
OpenFrame == Open(TRUE)
ReadFrame == \E j \in Types[WrittenType(1)].readAs : chunks # <<>> /\ ReadChunk(1, j)

NextFrame == WriteFrame \/ GetHeaderAny \/ ReleaseFrame \/ OpenFrame \/ ReadFrame \/ Close

SpecFrame == Init /\ [][NextFrame]_vars

\* SpecCallable: the codec is any callable: besides the chunk-stream primitives it
\* re-enters ReadWriteChunk or seeks and writes the buffer through GetStream()
CallTypes == {i \in TypeIdx : Types[i].call # {}}
WriteCallable ==
    \E id \in WriteIds, i \in CallTypes : \E v \in Types[i].call : WriteChunk(id, i, v)
\* read back, under the ids written, with the callables that hold no array frame:
\* an array codec run over bytes no array wrote loops for as many elements as the
\* four bytes it finds say
ReadCallTypes == {19, 21, 22}
ReadCallable == \E id \in WriteIds, j \in ReadCallTypes : ReadChunk(id, j)

NextCallable == WriteCallable \/ ReleaseAny \/ OpenFrame \/ ReadCallable \/ Close

SpecCallable == Init /\ [][NextCallable]_vars

(***************************************************************************)
(* Properties.  Helpers over the codec descriptors and the call record.    *)
(***************************************************************************)
\* no std::string inside v holds a NUL byte
RECURSIVE NulFree(_, _)
NulFree(t, v) ==
    CASE t.k = "u" -> TRUE
      [] t.k = "w" -> TRUE
      [] t.k = "as" -> TRUE
      [] t.k = "s" -> \A i \in 1..Len(v) : v[i] # 0
      [] t.k = "ws" -> \A i \in 1..Len(v) : v[i] # 0
      [] t.k = "vec" -> \A i \in 1..Len(v) : NulFree(t.el, v[i])
      [] t.k = "arr" -> \A i \in 1..t.n : NulFree(t.el, v[i])
      [] t.k = "rec" -> \A i \in 1..Len(t.fs) : NulFree(t.fs[i], v[i])

\* every ReadWriteArray element codec inside v returns true for every slot
RECURSIVE AllCounted(_, _)
AllCounted(t, v) ==
    CASE t.k = "u" -> TRUE
      [] t.k = "w" -> TRUE
      [] t.k = "as" -> TRUE
      [] t.k = "s" -> TRUE
      [] t.k = "ws" -> TRUE
      [] t.k = "vec" -> \A i \in 1..Len(v) : AllCounted(t.el, v[i])
      [] t.k = "arr" -> \A i \in 1..t.n : v[i] \notin t.skip /\ AllCounted(t.el, v[i])
      [] t.k = "rec" -> \A i \in 1..Len(t.fs) : AllCounted(t.fs[i], v[i])

\* the reader holds the payload the writer produced
HoldsPayload == phase = "READING" /\ buffer.data = released.data

\* the i-th write returned normally and no earlier such write used its id
FirstWithId(i) ==
    /\ written[i].err = NoError
    /\ \A j \in 1..(i - 1) : written[j].err = NoError => written[j].id # written[i].id

\* the last call read chunk written[i] back with the codec that wrote it
ReadBack(i) ==
    /\ last.op = "read"
    /\ HoldsPayload
    /\ written[i].err = NoError
    /\ written[i].id = last.id
    /\ written[i].ti = last.ti

\* C1 as stated: writing chunks with codecs built from the primitives and reading
\* them back with the same codecs and ids reproduces every value as it was written
C1_RoundTripAsStated ==
    \A i \in 1..Len(written) :
        ReadBack(i) => last.err = NoError /\ last.val = written[i].val

\* C1 amended: the round trip reproduces every value provided the chunk ids are
\* distinct, no string holds a NUL byte and every ReadWriteArray element codec
\* returns true for every slot
C1_RoundTrip ==
    \A i \in 1..Len(written) :
        ( /\ ReadBack(i)
          /\ FirstWithId(i)
          /\ NulFree(Types[written[i].ti].t, written[i].val)
          /\ AllCounted(Types[written[i].ti].t, written[i].val) )
        => last.err = NoError /\ last.ret /\ last.val = written[i].val

\* two chunks with distinct ids; the second, a struct of a vector of strings of
\* different sizes and a scalar, is read back equal
C1_Witness ==
    /\ Len(written) = 2
    /\ ReadBack(2) /\ FirstWithId(2)
    /\ written[1].err = NoError
    /\ written[2].ti = 4
    /\ Len(written[2].val[1]) = 2
    /\ last.val = written[2].val

\* C2: a READING ReadWriteChunk whose id matches no directory entry returns false
\* without invoking the codec and changes neither directory, payload nor cursor;
\* with a matching id the codec is invoked once and the call returns true
C2_MissingChunk ==
    last.op = "read" =>
        IF \A k \in 1..Len(last.pre.chunks) : last.pre.chunks[k].Id # last.id
        THEN /\ ~last.ret /\ last.calls = 0 /\ last.err = NoError
             /\ chunks = last.pre.chunks
             /\ buffer = last.pre.buffer
        ELSE /\ last.calls <= 1
             /\ last.err = NoError => last.calls = 1 /\ last.ret

\* a read of an id no entry has, over a directory of two entries and a cursor
\* left past the start by an earlier read
C2_Witness ==
    /\ last.op = "read"
    /\ Len(chunks) = 2
    /\ \A k \in 1..Len(chunks) : chunks[k].Id # last.id
    /\ buffer.pos > 0
    /\ ~last.ret

\* the codec never calls ReadWriteChunk on the container it runs in
RECURSIVE NoReentry(_)
NoReentry(t) ==
    CASE t.k = "chunk" -> FALSE
      [] t.k = "vec" -> NoReentry(t.el)
      [] t.k = "arr" -> NoReentry(t.el)
      [] t.k = "rec" -> \A i \in 1..Len(t.fs) : NoReentry(t.fs[i])
      [] OTHER -> TRUE

\* the codec uses the chunk-stream primitives only: it neither re-enters
\* ReadWriteChunk nor reaches the buffer through GetStream()
RECURSIVE Primitive(_)
Primitive(t) ==
    CASE t.k \in {"chunk", "seek", "put"} -> FALSE
      [] t.k = "vec" -> Primitive(t.el)
      [] t.k = "arr" -> Primitive(t.el)
      [] t.k = "rec" -> \A i \in 1..Len(t.fs) : Primitive(t.fs[i])
      [] OTHER -> TRUE

\* every call so far returned normally from a codec of chunk-stream primitives
AllPrimitiveReturned ==
    \A i \in 1..Len(written) : written[i].err = NoError /\ Primitive(Types[written[i].ti].t)

\* the directory lists the chunks in call order, starts at offset 0, is contiguous
InCallOrder ==
    /\ Len(chunks) = Len(written)
    /\ \A k \in 1..Len(chunks) :
          /\ chunks[k].Id = written[k].id
          /\ chunks[k].Offset = IF k = 1 THEN 0
                                ELSE chunks[k - 1].Offset + chunks[k - 1].Length

\* the call appended the one entry {id, cursor before, cursor after - cursor before}
\* and returned true
AppendedOwnEntry ==
    /\ last.ret
    /\ chunks = Append(last.pre.chunks,
                       [Id |-> last.id, Offset |-> last.pre.buffer.pos,
                        Length |-> buffer.pos - last.pre.buffer.pos])

\* C3 as stated: every WRITING ReadWriteChunk whose codec returns normally appends
\* the entry {id, cursor before, cursor after - cursor before} and returns true
C3_DirectoryContiguousAsStated ==
    /\ (last.op = "write" /\ last.err = NoError) => AppendedOwnEntry
    /\ (phase = "WRITING" /\ AllPrimitiveReturned) => InCallOrder

\* C3: a WRITING ReadWriteChunk whose codec returns normally and does not itself
\* call ReadWriteChunk on the container appends the entry {id, cursor before,
\* cursor after - cursor before (in uint64_t)} and returns true; when every call
\* returned normally from a codec of chunk-stream primitives the directory lists the
\* chunks in call order, starts at offset 0 and is contiguous
C3_DirectoryContiguous ==
    /\ (last.op = "write" /\ last.err = NoError /\ NoReentry(Types[last.ti].t)) =>
          AppendedOwnEntry
    /\ (phase = "WRITING" /\ AllPrimitiveReturned) => InCallOrder

\* two chunks written one after the other by codecs of chunk-stream primitives, the
\* second starting where the first ends
C3_Witness ==
    /\ last.op = "write" /\ last.err = NoError
    /\ Len(written) = 2
    /\ AllPrimitiveReturned
    /\ Len(chunks) = 2
    /\ chunks[1].Length > 0
    /\ chunks[2].Offset = chunks[1].Length
    /\ chunks[2].Length > 0

\* a codec that wrote a byte, called ReadWriteChunk(2, ...) and wrote another byte:
\* the call with id 1 appended the entries {2, 1, 1} and {2, 1, 2}
C3_WitnessReentry ==
    /\ last.op = "write" /\ last.err = NoError /\ last.id = 1
    /\ last.pre.chunks = <<>>
    /\ chunks = <<[Id |-> 2, Offset |-> 1, Length |-> 1],
                  [Id |-> 2, Offset |-> 1, Length |-> 2]>>

\* a codec that wrote four bytes at offset 4 and set the cursor to 0 through
\* GetStream(): the entry's Length is 0 - 4 in uint64_t
C3_WitnessRewind ==
    /\ last.op = "write" /\ last.err = NoError
    /\ Len(chunks) = 2
    /\ chunks[2].Offset = 4
    /\ chunks[2].Length = -4
    /\ buffer.pos = 0

\* the directory entries as they lie in the emitted stream
RECURSIVE EntriesImage(_, _)
EntriesImage(entries, i) ==
    IF i > Len(entries) THEN <<>>
    ELSE ChunkEntryBytes(entries[i]) \o EntriesImage(entries, i + 1)

\* the bytes of the emitted stream after the header and the directory
EmittedPayload ==
    SubSeq(stream.data, HeaderSize + ChunkEntrySize * Len(chunks) + 1, Len(stream.data))

\* the destructor calls deflate: Compression is 1 when it starts
Deflates == last.pre.header.Compression = COMPRESSION_GZIP

\* C4: finalization sets NumChunks, UncompressedSize and Sha1, whatever the caller
\* left in them, emits header, then the directory in order, then the payload; when
\* the deflate it calls succeeds Compression is 1 and CompressedSize the number of
\* deflated bytes emitted, when it fails Compression is 0, CompressedSize =
\* UncompressedSize and the payload is the raw buffer
C4_Finalization ==
    last.op = "release" =>
        /\ header.NumChunks = Len(chunks)
        /\ header.UncompressedSize = Len(buffer.data)
        /\ header.Sha1 = Crypt_SHA1(buffer.data)
        /\ stream.data = HeaderBytes(header) \o EntriesImage(chunks, 1) \o EmittedPayload
        /\ Len(stream.data) = HeaderSize + ChunkEntrySize * Len(chunks)
                              + header.CompressedSize
        /\ (Deflates /\ last.ok) =>
                /\ header.Compression = COMPRESSION_GZIP
                /\ header.CompressedSize = Len(EmittedPayload)
                /\ EmittedPayload = util_zlib_deflate(buffer.data, TRUE).bytes
        /\ (Deflates /\ ~last.ok) =>
                /\ header.Compression = COMPRESSION_NONE
                /\ header.CompressedSize = header.UncompressedSize
                /\ EmittedPayload = buffer.data

\* a writer of two chunks finalized while deflate fails
C4_Witness ==
    /\ last.op = "release"
    /\ ~last.ok
    /\ Len(chunks) = 2
    /\ Len(buffer.data) > 8
    /\ header.Compression = COMPRESSION_NONE

\* C5: a reader constructed over the stream a finalized writer emitted, with an
\* inflate that inverts deflate, holds the writer's directory and the writer's
\* uncompressed buffer, of header.UncompressedSize bytes, for Compression 1 and 0
C5_EnvelopeRoundTrip ==
    (last.op = "open" /\ (last.ok \/ last.pre.header.Compression # COMPRESSION_GZIP)) =>
        /\ phase = "READING"
        /\ header = last.pre.header
        /\ chunks = released.chunks
        /\ buffer.data = released.data
        /\ Len(buffer.data) = header.UncompressedSize

\* a writer whose caller set NumChunks and Compression through GetHeader(): the
\* count is recomputed, the Compression kept and the payload stored raw
C4_WitnessAssigned ==
    /\ last.op = "release"
    /\ last.ok
    /\ last.pre.header.NumChunks = 9
    /\ last.pre.header.Compression = 2
    /\ header.NumChunks = 1
    /\ header.Compression = 2
    /\ EmittedPayload = buffer.data

\* a reader over a deflated payload of two chunks
C5_Witness ==
    /\ last.op = "open"
    /\ last.ok
    /\ header.Compression = COMPRESSION_GZIP
    /\ Len(chunks) = 2
    /\ Len(buffer.data) > 8
    /\ buffer.data = released.data

\* a reader over a payload stored raw after deflate failed
C5_WitnessRaw ==
    /\ last.op = "open"
    /\ header.Compression = COMPRESSION_NONE
    /\ Len(chunks) = 2
    /\ buffer.data = released.data

\* a reader over a payload stored raw by a writer whose caller set Compression to 2
C5_WitnessStored ==
    /\ last.op = "open"
    /\ header.Compression = 2
    /\ header.Magic = 1263223131
    /\ Len(chunks) = 1
    /\ buffer.data = released.data

\* C9 as stated: when the reader's constructor finds Compression = 1 and inflate
\* returns absent, construction fails; no READING container comes into existence
C9_InflateErrorAsStated ==
    (last.op = "open" /\ last.pre.header.Compression = COMPRESSION_GZIP /\ ~last.ok)
    => phase # "READING" /\ last.err # NoError

(***************************************************************************)
(* Array frames, read off the record of the framing calls of the last      *)
(* chunk codec: e is the index of an EndArray call in last.log.            *)
(***************************************************************************)
EndArrayCalls(md) ==
    {e \in 1..Len(last.log) : last.log[e].fn = "EndArray" /\ last.log[e].mode = md}

IsBeginOf(b, e) ==
    last.log[b].fn = "BeginArray" /\ last.log[b].depth1 = last.log[e].depth0

\* the BeginArray call that opened the frame e closes
BeginOf(e) ==
    CHOOSE b \in 1..(e - 1) :
        IsBeginOf(b, e) /\ \A c \in (b + 1)..(e - 1) : ~IsBeginOf(c, e)

\* the NextArrayElement calls made on the frame e closes
Counted(e) ==
    {n \in (BeginOf(e) + 1)..(e - 1) :
        last.log[n].fn = "NextArrayElement" /\ last.log[n].depth0 = last.log[e].depth0}

\* where the element body counted by call n starts
BodyStart(e, n) ==
    IF \E m \in Counted(e) : m < n
    THEN last.log[CHOOSE m \in Counted(e) :
                      m < n /\ \A c \in Counted(e) : c < n => c <= m].pos0
    ELSE last.log[BeginOf(e)].pos1

BodySize(e, n) == last.log[n].pos0 - BodyStart(e, n)

FrameStart(e) == last.log[BeginOf(e)].pos0

\* the header of the frame as EndArray left it in the buffer
StoredCount(e) ==
    FromLE(SubSeq(last.log[e].data1, FrameStart(e) + 1, FrameStart(e) + 4))

StoredElementSize(e) ==
    FromLE(SubSeq(last.log[e].data1, FrameStart(e) + 5, FrameStart(e) + 8))

\* frame e was written to its end, with one or more elements, all of k bytes
Homogeneous(e, k) ==
    /\ last.log[e].err = NoError
    /\ Counted(e) # {}
    /\ \A n \in Counted(e) : BodySize(e, n) = k

\* C6 as stated: when every element body of a written array of one or more
\* elements has the same size k, the stored ElementSize is nonzero and equals k
\* and the stored Count is the number of elements
C6_FixedStrideAsStated ==
    \A e \in EndArrayCalls(WRITING) : \A k \in 0..Len(last.log[e].data0) :
        Homogeneous(e, k) =>
            /\ StoredElementSize(e) # 0
            /\ StoredElementSize(e) = k
            /\ StoredCount(e) = Cardinality(Counted(e))

\* C6 amended: when every element body of a written array of one or more elements
\* has the same size k, the stored ElementSize equals k, which is nonzero exactly
\* when the bodies are not empty, and the stored Count is the number of elements
C6_FixedStride ==
    \A e \in EndArrayCalls(WRITING) : \A k \in 0..Len(last.log[e].data0) :
        Homogeneous(e, k) =>
            /\ StoredElementSize(e) = k
            /\ (StoredElementSize(e) # 0 <=> k > 0)
            /\ StoredCount(e) = Cardinality(Counted(e))

\* a written vector of two vectors of one byte each: the inner frames hold a
\* single element of 1 byte, the outer frame two elements of 9 bytes
C6_Witness ==
    /\ last.op = "write"
    /\ \E e \in EndArrayCalls(WRITING) :
          /\ Homogeneous(e, 1)
          /\ Cardinality(Counted(e)) = 1
          /\ StoredElementSize(e) = 1
          /\ StoredCount(e) = 1
    /\ \E e \in EndArrayCalls(WRITING) :
          /\ Homogeneous(e, 9)
          /\ Cardinality(Counted(e)) = 2
          /\ StoredElementSize(e) = 9
          /\ StoredCount(e) = 2

\* C7: when two element bodies of a written array differ in size the stored
\* ElementSize is 0, and once ElementSize is 0 after a counted element no later
\* element of the frame makes it nonzero
C7_VariableStride ==
    /\ \A e \in EndArrayCalls(WRITING) :
          ( /\ last.log[e].err = NoError
            /\ \E m, n \in Counted(e) : BodySize(e, m) # BodySize(e, n) )
          => StoredElementSize(e) = 0
    /\ \A n \in 1..Len(last.log) :
          ( /\ last.log[n].fn = "NextArrayElement"
            /\ last.log[n].mode = WRITING
            /\ last.log[n].top0.Count > 0
            /\ last.log[n].top0.ElementSize = 0 )
          => last.log[n].top1.ElementSize = 0

\* a written frame of three elements whose second differs from the other two
C7_Witness ==
    /\ last.op = "write"
    /\ \E e \in EndArrayCalls(WRITING) :
          /\ last.log[e].err = NoError
          /\ Cardinality(Counted(e)) = 3
          /\ \E m, n, o \in Counted(e) :
                /\ m < n /\ n < o
                /\ BodySize(e, m) = BodySize(e, o)
                /\ BodySize(e, m) # BodySize(e, n)
                /\ BodySize(e, m) > 0
          /\ StoredElementSize(e) = 0

\* the count and stride stored in the frame at the start of the chunk read last
ReadCount == FromLE(SubSeq(buffer.data, last.pre.chunks[1].Offset + 1,
                           last.pre.chunks[1].Offset + 4))

ReadElementSize == FromLE(SubSeq(buffer.data, last.pre.chunks[1].Offset + 5,
                                 last.pre.chunks[1].Offset + 8))

\* the last call read a frame of more elements than the array has slots
ExcessRead ==
    /\ last.op = "read"
    /\ last.err = NoError
    /\ last.ret
    /\ Types[last.ti].t.k = "arr"
    /\ written[1].err = NoError
    /\ ReadCount > Types[last.ti].t.n

\* C8 as stated: ReadWriteArray over a frame whose count exceeds the capacity
\* consumes the excess elements: the cursor ends just past the last element body
\* of the frame, for fixed-stride and for variable-stride frames
C8_ExcessConsumedAsStated ==
    ExcessRead => buffer.pos = written[1].end

\* C10: a WRITING EndArray raises MalformedArray exactly when no element was
\* counted and the cursor is not at frame start + 8; otherwise Count and
\* ElementSize are written at the frame start, the cursor is restored, no other
\* byte changes and the frame is popped
C10_EndArrayWriting ==
    \A e \in EndArrayCalls(WRITING) :
        IF Counted(e) = {} /\ last.log[e].pos0 # FrameStart(e) + 8
        THEN last.log[e].err = "MalformedArray"
        ELSE /\ last.log[e].err = NoError
             /\ last.log[e].data1 =
                    SubSeq(last.log[e].data0, 1, FrameStart(e))
                    \o LE(Cardinality(Counted(e)), 4)
                    \o LE(last.log[e].top0.ElementSize, 4)
                    \o SubSeq(last.log[e].data0, FrameStart(e) + 9,
                              Len(last.log[e].data0))
             /\ last.log[e].pos1 = last.log[e].pos0
             /\ last.log[e].depth1 = last.log[e].depth0 - 1

\* a codec that ended one frame with counted elements, back-patched in the middle
\* of the buffer, and then a frame with bytes written but none counted
C10_Witness ==
    /\ last.op = "write"
    /\ last.err = "MalformedArray"
    /\ \E e \in EndArrayCalls(WRITING) :
          /\ last.log[e].err = NoError
          /\ Cardinality(Counted(e)) = 2
          /\ FrameStart(e) > 0
          /\ last.log[e].pos1 > FrameStart(e) + 8
    /\ \E e \in EndArrayCalls(WRITING) :
          /\ last.log[e].err = "MalformedArray"
          /\ Counted(e) = {}
          /\ last.log[e].pos0 = FrameStart(e) + 10

\* C11: writing an empty vector produces exactly the 8 frame bytes Count = 0,
\* ElementSize = 0 and no error; reading a frame with Count = 0 as a vector yields
\* the empty vector, invokes the element codec zero times and leaves the cursor
\* just past the 8-byte frame header
C11_EmptyVector ==
    /\ ( /\ last.op = "write"
         /\ Types[last.ti].t.k = "vec"
         /\ written[1].val = <<>> )
       => /\ last.err = NoError
          /\ buffer.data = LE(0, 4) \o LE(0, 4)
          /\ buffer.pos = 8
    /\ ( /\ last.op = "read"
         /\ Types[last.ti].t.k = "vec"
         /\ Len(buffer.data) >= last.pre.chunks[1].Offset + 8
         /\ ReadCount = 0 )
       => /\ last.err = NoError
          /\ last.ret
          /\ last.val = <<>>
          /\ \A n \in 1..Len(last.log) : last.log[n].fn # "f"
          /\ buffer.pos = last.pre.chunks[1].Offset + 8

\* an empty vector of strings written as 8 zero bytes and read back into a
\* vector that held an element before the call
C11_Witness ==
    /\ last.op = "read"
    /\ last.ti = 7
    /\ written[1].ti = 7
    /\ written[1].val = <<>>
    /\ Dirty(Types[7].t) # <<>>
    /\ buffer.data = Zeros(8)
    /\ last.val = <<>>
    /\ buffer.pos = 8

\* the Offset of the first directory entry, in directory order, with the id read last
FirstOffset ==
    LET first == CHOOSE k \in 1..Len(chunks) :
                    chunks[k].Id = last.id /\ \A j \in 1..(k - 1) : chunks[j].Id # last.id
    IN  chunks[first].Offset

\* C12: with several directory entries of the same Id a READING ReadWriteChunk
\* runs the codec from the Offset of the first of them, for every request of the
\* Id and whatever was requested before: a codec that opens an array frame opens
\* it at that Offset, a scalar or string codec ends one value past that Offset
C12_FirstDuplicate ==
    (last.op = "read" /\ last.calls = 1) =>
        /\ last.log # <<>> =>
              last.log[1].fn = "BeginArray" /\ last.log[1].pos0 = FirstOffset
        /\ (last.err = NoError /\ Types[last.ti].t.k = "u") =>
              /\ buffer.pos = FirstOffset + Types[last.ti].t.w
              /\ last.val = FromLE(SubSeq(buffer.data, FirstOffset + 1, buffer.pos))
        /\ (last.err = NoError /\ Types[last.ti].t.k = "s") =>
              /\ buffer.pos = FirstOffset + Len(last.val) + 1
              /\ last.val = SubSeq(buffer.data, FirstOffset + 1, buffer.pos - 1)

\* two entries of one Id, the second written with another value; the Id is
\* requested again after an earlier request left the cursor past the second entry
C12_Witness ==
    /\ last.op = "read"
    /\ last.calls = 1
    /\ Len(chunks) = 2
    /\ Len(written) = 2
    /\ chunks[1].Id = chunks[2].Id
    /\ chunks[2].Offset > 0
    /\ written[1].ti = written[2].ti
    /\ written[1].val # written[2].val
    /\ last.pre.buffer.pos > chunks[2].Offset
    /\ last.log # <<>>
    /\ last.log[1].pos0 = 0

\* C13: a READING container is immutable after construction: no ReadWriteChunk
\* call, whatever primitives its codec uses, changes the header, the directory or
\* the bytes or length of the payload buffer, and neither such a call nor the
\* release writes to the underlying stream
C13_ReadingImmutable ==
    [][(phase = "READING" /\ last'.op \in {"read", "close"}) =>
          /\ header' = header
          /\ chunks' = chunks
          /\ buffer'.data = buffer.data
          /\ stream' = stream]_vars

\* the header of a READING container assigned through GetHeader(), which is no
\* ReadWriteChunk call
C13_WitnessGetHeader ==
    /\ phase = "READING"
    /\ last.op = "getheader"
    /\ header # last.pre.header

\* a chunk read with a codec of Write, string Write and ReadWriteAs calls: the
\* calls moved the cursor and left payload, directory and header as constructed
C13_Witness ==
    /\ last.op = "read"
    /\ last.ti = 18
    /\ last.err = NoError
    /\ last.val[1] = Dirty(W(2))
    /\ last.val[3] = 44
    /\ buffer.pos > last.pre.chunks[1].Offset
    /\ buffer.data = released.data
    /\ chunks = released.chunks
    /\ header = last.pre.header

\* the calls of the last chunk codec recorded under this name that did not throw
CallsOf(fn) ==
    {n \in 1..Len(last.log) : last.log[n].fn = fn /\ last.log[n].err = NoError}

\* C14: the array frame stack is balanced: a ReadWriteVector or ReadWriteArray
\* call that returns normally, in either mode and at any nesting depth, leaves the
\* stack at the depth it had on entry, so the stack is empty when a chunk codec
\* returns from ReadWriteChunk
C14_StackBalanced ==
    (last.op \in {"read", "write"} /\ last.calls = 1 /\ last.err = NoError) =>
        /\ last.stack = <<>>
        /\ Cardinality(CallsOf("BeginArray")) = Cardinality(CallsOf("EndArray"))
        /\ \A b \in CallsOf("BeginArray") : last.log[b].depth1 = last.log[b].depth0 + 1
        /\ \A e \in CallsOf("EndArray") :
              /\ last.log[e].depth1 = last.log[e].depth0 - 1
              /\ last.log[BeginOf(e)].depth0 = last.log[e].depth1
        /\ \A n \in CallsOf("f") : last.log[n].depth1 = last.log[n].depth0
        /\ \A n \in CallsOf("NextArrayElement") : last.log[n].depth1 = last.log[n].depth0

\* a vector of vectors read back: inner frames were opened and closed at depth 2
\* inside the outer frame, and the stack is empty at the end
C14_Witness ==
    /\ last.op = "read"
    /\ last.err = NoError
    /\ last.ti = 5
    /\ Len(last.val) >= 2
    /\ \E e \in CallsOf("EndArray") : last.log[e].depth0 = 2 /\ last.log[e].depth1 = 1
    /\ \E e \in CallsOf("EndArray") : last.log[e].depth0 = 1 /\ last.log[e].depth1 = 0
    /\ last.stack = <<>>

\* C15: in WRITING mode, after any sequence of ReadWriteChunk calls, every
\* directory entry has Offset + Length <= buffer length, and after finalization
\* Offset + Length <= UncompressedSize of the emitted header
C15_EntriesWithinBuffer ==
    /\ phase = "WRITING" =>
          \A k \in 1..Len(chunks) :
              chunks[k].Offset + chunks[k].Length <= Len(buffer.data)
    /\ last.op = "release" =>
          /\ header.UncompressedSize = Len(buffer.data)
          /\ HeaderFromBytes(SubSeq(stream.data, 1, HeaderSize)).UncompressedSize
                 = header.UncompressedSize
          /\ \A k \in 1..Len(chunks) :
                chunks[k].Offset + chunks[k].Length <= header.UncompressedSize

\* a finalized writer of two chunks, the second a vector of vectors whose frames
\* were back-patched, ending exactly at UncompressedSize
C15_Witness ==
    /\ last.op = "release"
    /\ Len(chunks) = 2
    /\ Len(written) = 2
    /\ written[2].ti = 5
    /\ chunks[2].Offset > 0
    /\ chunks[2].Length > 8
    /\ chunks[2].Offset + chunks[2].Length = header.UncompressedSize

\* the last call read, without throwing, a frame of fewer elements than the
\* array has slots
ShortRead ==
    /\ last.op = "read"
    /\ last.err = NoError
    /\ last.ret
    /\ Types[last.ti].t.k = "arr"
    /\ written[1].err = NoError
    /\ ReadCount < Types[last.ti].t.n

\* where the body of the i-th element of a fixed-stride frame starts
StoredBody(i) == last.pre.chunks[1].Offset + 8 + (i - 1) * ReadElementSize

\* what the element codec decodes from the i-th stored element: a scalar from the
\* first bytes of its body, a string as the writer's string up to its first NUL
StoredElement(i) ==
    IF Types[last.ti].t.el.k = "u"
    THEN FromLE(SubSeq(buffer.data, StoredBody(i) + 1,
                       StoredBody(i) + Types[last.ti].t.el.w))
    ELSE SubSeq(written[1].val[i], 1, FindNul(written[1].val[i]))

\* C16: ReadWriteArray into an array of N slots from a frame of c < N elements
\* leaves the decoded elements in slots 0..c-1 in stored order and the default
\* value in every slot c..N-1, whatever the slots held before
C16_ShortArrayDefaults ==
    ShortRead =>
        /\ \A i \in 1..ReadCount : last.val[i] = StoredElement(i)
        /\ \A i \in (ReadCount + 1)..Types[last.ti].t.n :
              last.val[i] = Default(Types[last.ti].t.el)

\* a vector of two strings read into an array of four strings that all held a
\* value before: two slots decoded, two slots empty
C16_Witness ==
    /\ ShortRead
    /\ last.ti = 14
    /\ ReadCount = 2
    /\ Dirty(Types[14].t)[3] # <<>>
    /\ last.val[1] = <<97>>
    /\ last.val[2] = <<>>
    /\ last.val[3] = <<>>
    /\ last.val[4] = <<>>

\* the element steps of the frame e closes, up to and including call n
StepsUpTo(e, n) == Cardinality({m \in Counted(e) : m <= n})

\* C17: reading a frame of stride k > 0 and Count n, the cursor after the i-th
\* element step is frame data start + i * k however many bytes the element codec
\* consumed, and frame data start + n * k after the whole array; with stride 0
\* the framing leaves the cursor where the element codec left it
C17_StrideSeek ==
    /\ \A n \in CallsOf("NextArrayElement") :
          (last.log[n].mode = READING /\ last.log[n].top0.Count > 0) =>
              IF last.log[n].top0.ElementSize > 0
              THEN /\ last.log[n].pos1
                         = last.log[n].top0.LastPos + last.log[n].top0.ElementSize
                   /\ last.log[n].top1.LastPos = last.log[n].pos1
              ELSE last.log[n].pos1 = last.log[n].pos0
    /\ \A e \in EndArrayCalls(READING) :
          /\ last.log[e].pos1 = last.log[e].pos0
          /\ last.log[BeginOf(e)].pos1 = last.log[BeginOf(e)].pos0 + 8
          /\ Cardinality(Counted(e)) = last.log[BeginOf(e)].top1.Count
          /\ last.log[BeginOf(e)].top1.ElementSize > 0 =>
                /\ \A n \in Counted(e) :
                      last.log[n].pos1 = last.log[BeginOf(e)].pos1
                          + StepsUpTo(e, n) * last.log[BeginOf(e)].top1.ElementSize
                /\ last.log[e].pos0 = last.log[BeginOf(e)].pos1
                      + last.log[BeginOf(e)].top1.Count
                        * last.log[BeginOf(e)].top1.ElementSize

\* a vector of three 2-byte elements read with an element codec of 1 byte: the
\* codec consumed less than the stride at every step and the cursor ends at
\* frame data start + 3 * 2
C17_Witness ==
    /\ last.op = "read"
    /\ last.err = NoError
    /\ last.ti = 9
    /\ written[1].ti = 6
    /\ Len(last.val) = 3
    /\ \A n \in CallsOf("NextArrayElement") :
          /\ last.log[n].pos0 = last.log[n].top0.LastPos + 1
          /\ last.log[n].pos1 = last.log[n].top0.LastPos + 2
    /\ buffer.pos = last.pre.chunks[1].Offset + 8 + 6

\* a vector of 2-byte elements read with an element codec of 4 bytes: the codec
\* consumed more than the stride and the framing moved the cursor back
C17_WitnessOverRead ==
    /\ last.op = "read"
    /\ last.ti = 10
    /\ written[1].ti = 6
    /\ \E n \in CallsOf("NextArrayElement") :
          /\ last.log[n].top0.ElementSize = 2
          /\ last.log[n].pos0 = last.log[n].top0.LastPos + 4
          /\ last.log[n].pos1 = last.log[n].top0.LastPos + 2

\* the last call wrote, without throwing, a chunk that is one array frame
FrameWritten(k) ==
    /\ last.op = "write"
    /\ last.err = NoError
    /\ Types[last.ti].t.k = k

\* the EndArray call of the frame opened first by the last chunk codec
TopEnd == CHOOSE e \in EndArrayCalls(WRITING) : last.log[e].depth0 = 1

\* the slots of the written array for which the element codec returned true
CountedSlots ==
    {i \in 1..Types[last.ti].t.n : written[1].val[i] \notin Types[last.ti].t.skip}

\* the counted slot before slot i, 0 when there is none
PrevCounted(i) ==
    IF \E j \in CountedSlots : j < i
    THEN CHOOSE j \in CountedSlots : j < i /\ \A c \in CountedSlots : c < i => c <= j
    ELSE 0

\* the NextArrayElement call made for the counted slot i
NextOfSlot(i) ==
    CHOOSE n \in Counted(TopEnd) :
        StepsUpTo(TopEnd, n) = Cardinality({j \in CountedSlots : j <= i})

\* C18: in WRITING mode the Count stored by ReadWriteArray is the number of slots
\* for which the element codec returned true, the bytes written for uncounted
\* slots count towards the size of the next counted element, and the Count stored
\* by ReadWriteVector is the length of the vector
C18_SparseArrayCount ==
    /\ FrameWritten("arr") =>
          /\ StoredCount(TopEnd) = Cardinality(CountedSlots)
          /\ Cardinality(Counted(TopEnd)) = Cardinality(CountedSlots)
          /\ \A i \in CountedSlots :
                BodySize(TopEnd, NextOfSlot(i))
                    = Types[last.ti].t.el.w * (i - PrevCounted(i))
          /\ Cardinality(CountedSlots) = 1 =>
                \A i \in CountedSlots :
                    StoredElementSize(TopEnd) = Types[last.ti].t.el.w * i
    /\ FrameWritten("vec") =>
          /\ StoredCount(TopEnd) = Len(written[1].val)
          /\ Cardinality(Counted(TopEnd)) = Len(written[1].val)

\* an array of two 1-byte slots whose first element codec returned false and
\* wrote its byte: Count 1, ElementSize 2
C18_Witness ==
    /\ FrameWritten("arr")
    /\ CountedSlots = {2}
    /\ StoredCount(TopEnd) = 1
    /\ StoredElementSize(TopEnd) = 2
    /\ buffer.data = <<1, 0, 0, 0, 2, 0, 0, 0, 1, 2>>

\* the bytes of s before its first NUL, all of s when it has none
NulPrefix(s) ==
    CHOOSE p \in {SubSeq(s, 1, n) : n \in 0..Len(s)} :
        /\ \A i \in 1..Len(p) : p[i] # 0
        /\ Len(p) = Len(s) \/ s[Len(p) + 1] = 0

\* C19: writing a string appends its bytes before its first NUL, or all of them,
\* and one NUL; reading returns the bytes from the cursor up to the first NUL and
\* leaves the cursor just past it; so a written string reads back as its prefix
\* before the first NUL and the reader consumes exactly what the writer produced
C19_StringCodec ==
    /\ (last.op = "write" /\ last.ti = 2) =>
          /\ last.err = NoError
          /\ buffer.data = NulPrefix(written[1].val) \o <<0>>
          /\ buffer.pos = Len(buffer.data)
    /\ (last.op = "read" /\ last.ti = 2) =>
          /\ last.err = NoError
          /\ \A i \in 1..Len(last.val) : last.val[i] # 0
          /\ last.val = SubSeq(buffer.data, last.pre.chunks[1].Offset + 1, buffer.pos - 1)
          /\ buffer.data[buffer.pos] = 0
          /\ last.val = NulPrefix(written[1].val)
          /\ buffer.pos = written[1].end
    /\ (last.op = "read" /\ last.ti = 7 /\ written[1].ti = 7) =>
          /\ last.err = NoError
          /\ Len(last.val) = Len(written[1].val)
          /\ \A i \in 1..Len(last.val) : last.val[i] = NulPrefix(written[1].val[i])
          /\ buffer.pos = written[1].end

\* the string "a\0b" written as 61 00 and read back as "a"
C19_Witness ==
    /\ last.op = "read"
    /\ last.ti = 2
    /\ written[1].val = <<97, 0, 98>>
    /\ buffer.data = <<97, 0>>
    /\ last.val = <<97>>
    /\ buffer.pos = 2

\* the string "\0" written as 00 and read back as the empty string
C19_WitnessOnlyNul ==
    /\ last.op = "read"
    /\ last.ti = 2
    /\ written[1].val = <<0>>
    /\ buffer.data = <<0>>
    /\ last.val = <<>>
    /\ buffer.pos = 1

\* the writes whose codec threw
Thrown == {i \in 1..Len(written) : written[i].err # NoError}

\* the codec of the last call threw
ThrewInCodec == last.op = "write" /\ last.log # <<>> /\ last.log[Len(last.log)].err # NoError

\* the error reached the caller, the directory is what it was before the call and
\* the bytes the codec wrote lie after the earlier ones, the cursor at their end
ThrownChunkLeft ==
    /\ last.err = last.log[Len(last.log)].err
    /\ ~last.ret
    /\ chunks = last.pre.chunks
    /\ Len(buffer.data) > Len(last.pre.buffer.data)
    /\ SubSeq(buffer.data, 1, Len(last.pre.buffer.data)) = last.pre.buffer.data
    /\ buffer.pos = Len(buffer.data)

\* every call so far ran a codec of chunk-stream primitives
AllPrimitive == \A i \in 1..Len(written) : Primitive(Types[written[i].ti].t)

\* C20 as stated: when any chunk codec throws inside a WRITING ReadWriteChunk the
\* error reaches the caller and the directory is exactly what it was before the call
C20_ThrowingCodecAsStated ==
    /\ ThrewInCodec => ThrownChunkLeft
    /\ last.op = "release" => header.NumChunks = Len(written) - Cardinality(Thrown)

\* C20: in a container whose chunk codecs use the chunk-stream primitives only,
\* when a codec throws inside a WRITING ReadWriteChunk the error reaches the
\* caller and no directory entry is appended,
\* the directory is what it was before the call, the bytes the codec wrote stay in
\* the buffer, and a later finalization includes them in the payload and in
\* UncompressedSize
C20_ThrowingCodec ==
    /\ (ThrewInCodec /\ AllPrimitive) => ThrownChunkLeft
    /\ (last.op = "write" /\ last.err # NoError) =>
          /\ last.log # <<>>
          /\ last.log[Len(last.log)].err = last.err
    /\ (last.op = "release" /\ AllPrimitive) =>
          /\ header.NumChunks = Len(written) - Cardinality(Thrown)
          /\ header.UncompressedSize = Len(buffer.data)
          /\ EmittedPayload = IF Deflates /\ last.ok
                              THEN util_zlib_deflate(buffer.data, TRUE).bytes
                              ELSE buffer.data
          /\ \A i \in Thrown :
                /\ written[i].off < written[i].end
                /\ written[i].end <= header.UncompressedSize
                /\ \A k \in 1..Len(chunks) :
                      \/ chunks[k].Offset + chunks[k].Length <= written[i].off
                      \/ chunks[k].Offset >= written[i].end

\* a writer whose first codec threw MalformedArray after writing 10 bytes and
\* whose second chunk was written after them, finalized: one entry at Offset 10,
\* UncompressedSize counting the 10 bytes
C20_Witness ==
    /\ last.op = "release"
    /\ Len(written) = 2
    /\ AllPrimitive
    /\ written[1].err = "MalformedArray"
    /\ written[2].err = NoError
    /\ Len(chunks) = 1
    /\ chunks[1].Offset = 10
    /\ SubSeq(buffer.data, 1, 10) = Zeros(8) \o <<1, 1>>
    /\ header.UncompressedSize = 10 + chunks[1].Length

\* a codec that called ReadWriteChunk(2, ...) and then threw MalformedArray: the
\* entry of the inner call stays in the directory
C20_WitnessReentry ==
    /\ ThrewInCodec
    /\ last.err = "MalformedArray"
    /\ ~last.ret
    /\ Len(chunks) = Len(last.pre.chunks) + 1
    /\ chunks[Len(chunks)].Id = 2

====
